---- MODULE Spec2Model ----
(***************************************************************************)
(* Model of the twilio-pbx serverless functions: the ringGroup sequential  *)
(* ring-group handler and the callTransfer REFER handler, with the Sync    *)
(* map they read and the platform that calls them back.                    *)
(*                                                                         *)
(* Strings the code takes apart (query strings, SIP addresses, numbers)    *)
(* are sequences of one-character strings.  A value that may be absent     *)
(* (undefined / null) is None or Some(v).                                  *)
(***************************************************************************)
EXTENDS Integers, Sequences, FiniteSets, TLC

VARIABLES
  store,      \* the ringGroup Sync map: key -> item state
  phones,     \* the numberConfig Sync map: phone number -> item state
  context,    \* the function environment (which variables are set)
  event,      \* the event of the last invocation
  result,     \* what that invocation gave its callback
  invoked,    \* the handler that ran last, "none" before any
  phase,      \* ring cycle: "idle", "ringing" (a dial is out), "done"
  from,       \* ring cycle: the caller of the cycle
  startGroup, \* ring cycle: the group the cycle was started for
  pending,    \* ring cycle: the action address of the dial that is out
  rounds,     \* ring cycle: the rounds so far, in order
  lastOutcome, \* ring cycle: the outcome the platform reported last
  edited,     \* ring cycle: the store was edited while it runs
  sync,       \* setupSync: the account's Sync services and their maps
  setup,      \* setupSync: each run's position and locals
  responses   \* setupSync: the responses given so far, in order

vars == <<store, phones, context, event, result, invoked, phase, from, startGroup, pending,
          rounds, lastOutcome, edited, sync, setup, responses>>

cycleVars == <<phase, from, startGroup, pending, rounds, lastOutcome, edited>>

setupVars == <<sync, setup, responses>>

\* no setupSync run and an account without Sync services
SetupIdle ==
  /\ sync = [services |-> <<>>, next |-> 1]
  /\ setup = <<>>
  /\ responses = <<>>

----------------------------------------------------------------------------
(* Bounds *)

\* longest destination list a store item holds
MaxN == 3
\* longest chain of rounds followed in one ring cycle
MaxRounds == 5

----------------------------------------------------------------------------
(* Absent values and JavaScript truthiness *)

None == <<>>
Some(v) == <<v>>
IsSome(o) == Len(o) = 1

\* a string operand of || or ! : undefined and "" are falsy
Truthy(o) == IsSome(o) /\ o[1] # <<>>

\* event.DialCallStatus is only compared, never taken apart: an atom
TruthyAtom(o) == IsSome(o) /\ o[1] # ""

\* a value that is not a string (an object, array or number of a JSON body):
\* it is truthy and has none of the methods of a string
ObjectValue == <<"[object]">>
IsString(v) == v # ObjectValue

----------------------------------------------------------------------------
(* Numbers and strings *)

Digits == {"0", "1", "2", "3", "4", "5", "6", "7", "8", "9"}

DigitVal(c) ==
  CASE c = "0" -> 0 [] c = "1" -> 1 [] c = "2" -> 2 [] c = "3" -> 3
    [] c = "4" -> 4 [] c = "5" -> 5 [] c = "6" -> 6 [] c = "7" -> 7
    [] c = "8" -> 8 [] c = "9" -> 9

DigitChar(d) ==
  CASE d = 0 -> "0" [] d = 1 -> "1" [] d = 2 -> "2" [] d = 3 -> "3"
    [] d = 4 -> "4" [] d = 5 -> "5" [] d = 6 -> "6" [] d = 7 -> "7"
    [] d = 8 -> "8" [] d = 9 -> "9"

\* a JavaScript number: NaN or an integer
NaN == [nan |-> TRUE, val |-> 0]
Num(n) == [nan |-> FALSE, val |-> n]

\* comparisons with NaN are false
Gt(x, n) == ~x.nan /\ x.val > n
Ge(x, n) == ~x.nan /\ x.val >= n

RECURSIVE SkipWs(_)
SkipWs(s) == IF s # <<>> /\ Head(s) = " " THEN SkipWs(Tail(s)) ELSE s

RECURSIVE DigitsPrefix(_)
DigitsPrefix(s) ==
  IF s # <<>> /\ Head(s) \in Digits
  THEN <<Head(s)>> \o DigitsPrefix(Tail(s))
  ELSE <<>>

RECURSIVE DecimalValue(_, _)
DecimalValue(s, acc) ==
  IF s = <<>> THEN acc ELSE DecimalValue(Tail(s), 10 * acc + DigitVal(Head(s)))

\* parseInt(s, 10): leading blanks, a sign, then the longest run of digits
parseInt(s) ==
  LET t == SkipWs(s)
      signed == t # <<>> /\ Head(t) \in {"+", "-"}
      neg == t # <<>> /\ Head(t) = "-"
      d == DigitsPrefix(IF signed THEN Tail(t) ELSE t)
  IN IF d = <<>> THEN NaN
     ELSE Num(IF neg THEN 0 - DecimalValue(d, 0) ELSE DecimalValue(d, 0))

\* `${n}` for an integer n
RECURSIVE NatToString(_)
NatToString(n) ==
  IF n < 10 THEN <<DigitChar(n)>>
  ELSE NatToString(n \div 10) \o <<DigitChar(n % 10)>>

NumToString(n) == IF n < 0 THEN <<"-">> \o NatToString(0 - n) ELSE NatToString(n)

\* Array.prototype.join of strings
RECURSIVE Join(_, _)
Join(parts, sep) ==
  IF parts = <<>> THEN <<>>
  ELSE IF Len(parts) = 1 THEN parts[1]
  ELSE parts[1] \o sep \o Join(Tail(parts), sep)

\* the index of the first c in s, 0 when there is none
RECURSIVE IndexOf(_, _, _)
IndexOf(s, c, i) ==
  IF i > Len(s) THEN 0 ELSE IF s[i] = c THEN i ELSE IndexOf(s, c, i + 1)

\* s split at every c: the pieces of s from index start on, i scanning
RECURSIVE SplitFrom(_, _, _, _)
SplitFrom(s, c, start, i) ==
  IF i > Len(s) THEN <<SubSeq(s, start, Len(s))>>
  ELSE IF s[i] = c THEN <<SubSeq(s, start, i - 1)>> \o SplitFrom(s, c, i + 1, i + 1)
  ELSE SplitFrom(s, c, start, i + 1)

Split(s, c) == SplitFrom(s, c, 1, 1)

----------------------------------------------------------------------------
(* The ringGroup Sync map *)

\* the keys the map may hold an item under
K1 == <<"1">>
K7 == <<"7">>
K7s == <<"7", "&", "s", "t", "a", "t", "e", "=", "0">>

\* what a destination list holds at index i (from 1) under a key: every
\* destination of every list is distinct, types alternate, the third is
\* of a type the handler does not know ('SIP'); the numbers of
\* group "1" are international numbers, those of the other groups are
\* written as extensions
RingGroupDestination(key, i) ==
  [name |-> <<key, i>>,
   type |-> IF i = 3 THEN "SIP"
            ELSE IF (Len(key) + i) % 2 = 0 THEN "sip" ELSE "number",
   destination |->
     IF (Len(key) + i) % 2 = 0 THEN <<"s", "i", "p", ":">> \o key \o NatToString(i) \o <<"@", "d">>
     ELSE IF key = <<"1">> THEN <<"+", "6", "1">> \o key \o NatToString(i)
     ELSE <<"0">> \o key \o NatToString(i),
   timeout |-> 10 + i]

DestinationList(key, n) == [i \in 1..n |-> RingGroupDestination(key, i)]

\* what a fetch of the item can give: an error status, or the item's data
\* in one of the shapes a Sync item holds
NotFound == [status |-> 404, shape |-> "none", group |-> <<>>]
StoreError == [status |-> 500, shape |-> "none", group |-> <<>>]
GroupItem(list) == [status |-> 200, shape |-> "group", group |-> list]
BareArrayItem(list) == [status |-> 200, shape |-> "array", group |-> list]
NoGroupItem == [status |-> 200, shape |-> "object", group |-> <<>>]
\* data: null, and data: {group: "..."}
NullDataItem == [status |-> 200, shape |-> "null", group |-> <<>>]
GroupNotArrayItem == [status |-> 200, shape |-> "groupString", group |-> <<>>]

ItemStates(key) ==
  {NotFound, StoreError, NoGroupItem, BareArrayItem(DestinationList(key, MaxN))}
    \cup {GroupItem(DestinationList(key, n)) : n \in 0..MaxN}

\* syncMapItems(key).fetch()
Fetch(st, key) == IF key \in DOMAIN st THEN st[key] ELSE NotFound

----------------------------------------------------------------------------
(* ringGroup.ts *)

\* fetchRingGroupConfig without the check that data.group is an array of
\* an object: it returns a bare array too
fetchRingGroupConfig_AnyArray(restClient, serviceSid, mapName, ringGroupId, st) ==
  IF ~restClient \/ ~serviceSid \/ ~mapName \/ ringGroupId = <<>> THEN None
  ELSE LET item == Fetch(st, ringGroupId)
       IN IF item.status # 200 THEN None
          ELSE IF item.shape \notin {"group", "array"} THEN None
          ELSE Some(item.group)

\* fetchRingGroupConfig without the check of its parameters
fetchRingGroupConfig_NoParameterCheck(restClient, serviceSid, mapName, ringGroupId, st) ==
  LET item == Fetch(st, ringGroupId)
  IN IF item.status # 200 THEN None
     ELSE IF item.shape # "group" THEN None
     ELSE Some(item.group)

fetchRingGroupConfig(restClient, serviceSid, mapName, ringGroupId, st) ==
  IF ~restClient \/ ~serviceSid \/ ~mapName \/ ringGroupId = <<>> THEN None
  ELSE LET item == Fetch(st, ringGroupId)
       IN IF item.status # 200 THEN None
          ELSE IF item.shape # "group" THEN None
          ELSE Some(item.group)

\* the fetches one call of fetchRingGroupConfig makes: the one in its try
fetchRingGroupConfigReads(restClient, serviceSid, mapName, ringGroupId, st) ==
  IF ~restClient \/ ~serviceSid \/ ~mapName \/ ringGroupId = <<>> THEN 0 ELSE 1

\* failureStatuses with one status left out
failureStatuses_NoCancelled == {"busy", "no-answer", "failed"}

failureStatuses == {"busy", "cancelled", "no-answer", "failed"}

\* shouldProceedToNext proceeding after every outcome
shouldProceedToNext_Always(dialStatus) == TRUE

shouldProceedToNext(dialStatus) ==
  IF ~TruthyAtom(dialStatus) THEN FALSE ELSE dialStatus[1] \in failureStatuses

\* event.ringGroupId || '1'
\* the group id of the event ignored
RingGroupIdOf_AlwaysDefault(ev) == K1

RingGroupIdOf(ev) == IF Truthy(ev.ringGroupId) THEN ev.ringGroupId[1] ELSE K1

\* parseInt(event.state || '0', 10)
StateOf(ev) == parseInt(IF Truthy(ev.state) THEN ev.state[1] ELSE <<"0">>)

\* event.From || event.Caller
CallerNumberOf(ev) == IF Truthy(ev.From) THEN ev.From ELSE ev.Caller

\* NextState without the increment
NextState_Same(state) == state

\* NextState stepping over a position
NextState_Skip(state) == state + 2

NextState(state) == state + 1

\* the test for the initial call off by one: state >= 0
NotInitial_FromZero(state) == Ge(state, 0)

\* if (state > 0): not the initial call
NotInitial(state) == Gt(state, 0)

\* `/ringGroup?state=${nextState}&ringGroupId=${ringGroupId}`
ActionUrl(nextState, ringGroupId) ==
  <<"/", "r", "i", "n", "g", "G", "r", "o", "u", "p", "?",
    "s", "t", "a", "t", "e", "=">> \o NumToString(nextState)
  \o <<"&", "r", "i", "n", "g", "G", "r", "o", "u", "p", "I", "d", "=">>
  \o ringGroupId

\* TwiML verbs
Say(text, arg) == [verb |-> "Say", text |-> text, arg |-> arg]
Hangup == [verb |-> "Hangup"]
Reject(reason) == [verb |-> "Reject", reason |-> reason]
Dial(attrs, noun, target) ==
  [verb |-> "Dial", attrs |-> attrs, noun |-> noun, target |-> target]

\* the attributes ringGroup gives its <Dial>
RingDialAttrs(callerNumber, currentDest, nextState, ringGroupId) ==
  [callerId |-> callerNumber,
   answerOnBridge |-> TRUE,
   timeout |-> Some(currentDest.timeout),
   action |-> Some(ActionUrl(nextState, ringGroupId)),
   method |-> "POST",
   referUrl |-> "/callTransfer",
   referMethod |-> "POST"]

\* the type compared without regard to case
DialNoun_IgnoreCase(currentDest) ==
  IF currentDest.type \in {"sip", "SIP"} THEN "Sip" ELSE "Number"

\* dial.sip(...) when the type is 'sip', dial.number(...) otherwise
DialNoun(currentDest) == IF currentDest.type = "sip" THEN "Sip" ELSE "Number"

\* an index that is not a number read as 0
HasIndex_NaNIsFirst(list, i) == 0 <= i.val /\ i.val < Len(list)

\* destinations[i] is an element (not undefined)
HasIndex(list, i) == ~i.nan /\ 0 <= i.val /\ i.val < Len(list)

\* the catch block: a TypeError thrown before anything was added
Caught == <<Say("We are unable to connect your call at this time.", <<>>), Hangup>>

\* what the handler passes to callback(null, voiceResponse), with the
\* locals the claims speak of
Out(doc, destinations, state, threw) ==
  [err |-> None, doc |-> doc, destinations |-> destinations, state |-> state,
   threw |-> threw, calls |-> 1]

\* the handler with the test of position and outcome moved before the
\* test of the list
ringGroupHandler_PositionFirst(ctx, ev, st) ==
  LET callerNumber == CallerNumberOf(ev)
      ringGroupId == RingGroupIdOf(ev)
  IN
  IF ~ctx.SYNC_SERVICE_SID \/ ~ctx.SYNC_MAP_RINGGROUP_NAME
  THEN Out(<<Say("Ring group service is not configured. Please contact support.", <<>>),
             Hangup>>, None, None, FALSE)
  ELSE
  LET destinations == fetchRingGroupConfig(TRUE, ctx.SYNC_SERVICE_SID,
                                           ctx.SYNC_MAP_RINGGROUP_NAME, ringGroupId, st)
  IN
  IF NotInitial(StateOf(ev)) /\ ~shouldProceedToNext(ev.DialCallStatus)
  THEN Out(<<>>, destinations, Some(StateOf(ev)), FALSE)
  ELSE
  IF destinations = None \/ Len(destinations[1]) = 0
  THEN Out(<<Say("Ring group is not configured. Unable to connect your call.",
                 ringGroupId), Hangup>>, destinations, None, FALSE)
  ELSE
  LET list == destinations[1]
      state == StateOf(ev)
      previousStatus == ev.DialCallStatus
  IN
  IF NotInitial(state) /\ ~shouldProceedToNext(previousStatus)
  THEN \* the log line reads destinations[state - 1].name
       IF HasIndex(list, Num(state.val - 1))
       THEN Out(<<>>, destinations, Some(state), FALSE)
       ELSE Out(Caught, destinations, Some(state), TRUE)
  ELSE IF Ge(state, Len(list))
  THEN Out(<<>>, destinations, Some(state), FALSE)
  ELSE \* the log line reads currentDest.name
       IF ~HasIndex(list, state)
       THEN Out(Caught, destinations, Some(state), TRUE)
       ELSE LET currentDest == list[state.val + 1]
                nextState == NextState(state.val)
            IN Out(<<Dial(RingDialAttrs(callerNumber, currentDest, nextState, ringGroupId),
                          DialNoun(currentDest), currentDest.destination)>>,
                   destinations, Some(state), FALSE)

ringGroupHandler(ctx, ev, st) ==
  LET callerNumber == CallerNumberOf(ev)
      ringGroupId == RingGroupIdOf(ev)
  IN
  IF ~ctx.SYNC_SERVICE_SID \/ ~ctx.SYNC_MAP_RINGGROUP_NAME
  THEN Out(<<Say("Ring group service is not configured. Please contact support.", <<>>),
             Hangup>>, None, None, FALSE)
  ELSE
  LET destinations == fetchRingGroupConfig(TRUE, ctx.SYNC_SERVICE_SID,
                                           ctx.SYNC_MAP_RINGGROUP_NAME, ringGroupId, st)
  IN
  IF destinations = None \/ Len(destinations[1]) = 0
  THEN Out(<<Say("Ring group is not configured. Unable to connect your call.",
                 ringGroupId), Hangup>>, destinations, None, FALSE)
  ELSE
  LET list == destinations[1]
      state == StateOf(ev)
      previousStatus == ev.DialCallStatus
  IN
  IF NotInitial(state) /\ ~shouldProceedToNext(previousStatus)
  THEN \* the log line reads destinations[state - 1].name
       IF HasIndex(list, Num(state.val - 1))
       THEN Out(<<>>, destinations, Some(state), FALSE)
       ELSE Out(Caught, destinations, Some(state), TRUE)
  ELSE IF Ge(state, Len(list))
  THEN Out(<<>>, destinations, Some(state), FALSE)
  ELSE \* the log line reads currentDest.name
       IF ~HasIndex(list, state)
       THEN Out(Caught, destinations, Some(state), TRUE)
       ELSE LET currentDest == list[state.val + 1]
                nextState == NextState(state.val)
            IN Out(<<Dial(RingDialAttrs(callerNumber, currentDest, nextState, ringGroupId),
                          DialNoun(currentDest), currentDest.destination)>>,
                   destinations, Some(state), FALSE)

\* the ringGroup map after one call of fetchRingGroupConfig that puts an
\* empty group under a key it did not find
fetchRingGroupConfigStore_CachesMiss(restClient, serviceSid, mapName, ringGroupId, st) ==
  IF ~restClient \/ ~serviceSid \/ ~mapName \/ ringGroupId = <<>> \/ ringGroupId \in DOMAIN st
  THEN st
  ELSE [k \in DOMAIN st \cup {ringGroupId} |->
          IF k = ringGroupId THEN GroupItem(<<>>) ELSE st[k]]

\* the ringGroup map after one call of fetchRingGroupConfig: its only call
\* on the map is syncMapItems(ringGroupId).fetch()
fetchRingGroupConfigStore(restClient, serviceSid, mapName, ringGroupId, st) == st

\* the ringGroup map after one invocation of the handler
ringGroupStore(ctx, ev, st) ==
  IF ~ctx.SYNC_SERVICE_SID \/ ~ctx.SYNC_MAP_RINGGROUP_NAME THEN st
  ELSE fetchRingGroupConfigStore(TRUE, ctx.SYNC_SERVICE_SID, ctx.SYNC_MAP_RINGGROUP_NAME,
                                 RingGroupIdOf(ev), st)

\* the fetches one invocation of the handler makes
ringGroupReads(ctx, ev, st) ==
  IF ~ctx.SYNC_SERVICE_SID \/ ~ctx.SYNC_MAP_RINGGROUP_NAME THEN 0
  ELSE fetchRingGroupConfigReads(TRUE, ctx.SYNC_SERVICE_SID, ctx.SYNC_MAP_RINGGROUP_NAME,
                                 RingGroupIdOf(ev), st)

----------------------------------------------------------------------------
(* The platform: query parameters of a request become fields of the event *)

\* the query string of an address: after the first '?', before any '#'
QueryOf(url) ==
  LET h == IndexOf(url, "#", 1)
      noFragment == IF h = 0 THEN url ELSE SubSeq(url, 1, h - 1)
      q == IndexOf(noFragment, "?", 1)
  IN IF q = 0 THEN <<>> ELSE SubSeq(noFragment, q + 1, Len(noFragment))

\* form decoding over the characters of the model: '+' stands for a blank
FormDecode(s) == [i \in 1..Len(s) |-> IF s[i] = "+" THEN " " ELSE s[i]]

\* one name=value pair: split at the first '='
QueryPair(part) ==
  LET e == IndexOf(part, "=", 1)
  IN IF e = 0 THEN [name |-> FormDecode(part), value |-> <<>>]
     ELSE [name |-> FormDecode(SubSeq(part, 1, e - 1)),
           value |-> FormDecode(SubSeq(part, e + 1, Len(part)))]

\* (the bound variables below name a value computed once)
QueryPairs(url) ==
  CHOOSE pairs \in
    {[i \in 1..Len(parts) |-> QueryPair(parts[i])] :
       parts \in {SelectSeq(Split(QueryOf(url), "&"), LAMBDA p : p # <<>>)}} : TRUE

\* the event field a query gives: absent, the value, or for a repeated
\* name the array of values, which the handler's string uses read as the
\* values joined by ','
QueryParam(url, name) ==
  CHOOSE field \in
    {IF Len(hits) = 0 THEN None
     ELSE Some(Join([i \in 1..Len(hits) |-> hits[i].value], <<",">>)) :
       hits \in {SelectSeq(QueryPairs(url), LAMBDA p : p.name = name)}} : TRUE

\* type DialCallStatus: the outcomes the platform reports
DialCallStatus == {"completed", "answered", "busy", "no-answer", "failed", "canceled"}

CallerF == <<"+", "1", "5">>
CallerC == <<"+", "1", "6">>

RingGroupEvent(state, ringGroupId, status, f, c) ==
  [state |-> state, ringGroupId |-> ringGroupId, DialCallStatus |-> status,
   From |-> f, Caller |-> c]

\* the event of a request to a ringGroup address, its body carrying the
\* outcome of the dial
CallbackEvent(url, status, f) ==
  RingGroupEvent(QueryParam(url, <<"s", "t", "a", "t", "e">>),
                 QueryParam(url, <<"r", "i", "n", "g", "G", "r", "o", "u", "p", "I", "d">>),
                 status, f, None)

----------------------------------------------------------------------------
(* Inputs *)

StateParams ==
  {None, Some(<<>>), Some(<<"x">>), Some(<<"-", "1">>), Some(<<"2", "x">>)}
    \cup {Some(NatToString(n)) : n \in 0..(MaxN + 1)}

GroupParams == {None, Some(<<>>), Some(K7), Some(K7s)}

\* any string may arrive as DialCallStatus: the platform's, the handler's
\* own spelling, none
StatusParams ==
  {None, Some("")} \cup {Some(s) : s \in DialCallStatus \cup {"cancelled"}}

CallerParams == {<<None, None>>, <<Some(CallerF), None>>, <<None, Some(CallerC)>>}

\* the environment: which of the variables are set to a non-empty string
Context(sid, ringGroupMap, phonesMap) ==
  [SYNC_SERVICE_SID |-> sid, SYNC_MAP_RINGGROUP_NAME |-> ringGroupMap,
   SYNC_MAP_PHONES_NAME |-> phonesMap]

Contexts == {Context(TRUE, TRUE, TRUE), Context(FALSE, TRUE, TRUE), Context(TRUE, FALSE, TRUE)}

NoEvent == RingGroupEvent(None, None, None, None, None)
NoResult == Out(<<>>, None, None, FALSE)

\* the Dial verbs of a document
DialsOf(doc) == SelectSeq(doc, LAMBDA v : v.verb = "Dial")
VerbsOf(doc) == [i \in 1..Len(doc) |-> doc[i].verb]

----------------------------------------------------------------------------
(* Single invocations of ringGroup with any event *)

Init ==
  /\ store \in [{K1, K7s} -> UNION {ItemStates(K1), ItemStates(K7s)}]
  /\ \A k \in DOMAIN store : store[k] \in ItemStates(k)
  /\ phones = <<>>
  /\ context \in Contexts
  /\ invoked = "none"
  /\ event = NoEvent
  /\ result = NoResult
  /\ phase = "idle"
  /\ from = None
  /\ startGroup = None
  /\ pending = None
  /\ rounds = <<>>
  /\ lastOutcome = None
  /\ edited = FALSE
  /\ SetupIdle

\* One request per behaviour: the handler keeps nothing between requests,
\* so a second request from the same store and context adds no new case.
RingGroup(state, ringGroupId, status, callers) ==
  /\ invoked = "none"
  /\ event' = RingGroupEvent(state, ringGroupId, status, callers[1], callers[2])
  /\ result' = ringGroupHandler(context, event', store)
  /\ store' = ringGroupStore(context, event', store)
  /\ invoked' = "ringGroup"
  /\ UNCHANGED <<phones, context, cycleVars, setupVars>>

Next ==
  \E state \in StateParams, ringGroupId \in GroupParams,
     status \in StatusParams, callers \in CallerParams :
    RingGroup(state, ringGroupId, status, callers)

Spec == Init /\ [][Next]_vars

----------------------------------------------------------------------------
(* A ring cycle: the platform requests ringGroup, places the dial of the  *)
(* response, and when that dial ends requests its action address with the *)
(* outcome, until a response holds no dial.                               *)

CycleGroupParams == {None, Some(<<>>), Some(K7), Some(K7s)}

\* the list of a group after its first destination was taken out
ShiftedList(key, n) == [i \in 1..n |-> RingGroupDestination(key, i + 1)]

CycleItemStates(key) ==
  {NotFound} \cup {GroupItem(DestinationList(key, n)) : n \in 0..MaxN}
             \cup {GroupItem(ShiftedList(key, n)) : n \in 1..MaxN}

\* the map holds group "1" alone, or group "7" with or without a group
\* whose key holds characters a query string reserves
CycleKeySets == {{K1}, {K7}, {K7, K7s}}

InitCycle ==
  /\ \E keys \in CycleKeySets :
       store \in [keys -> UNION {CycleItemStates(k) : k \in keys}]
  /\ \A k \in DOMAIN store : store[k] \in CycleItemStates(k)
  /\ phones = <<>>
  /\ context = Context(TRUE, TRUE, TRUE)
  /\ invoked = "none"
  /\ event = NoEvent
  /\ result = NoResult
  /\ phase = "idle"
  /\ from = None
  /\ startGroup = None
  /\ pending = None
  /\ rounds = <<>>
  /\ lastOutcome = None
  /\ edited = FALSE
  /\ SetupIdle

\* one round: the request, and what the platform does with the response
Round(request) ==
  \E ev \in {request} :
  \E out \in {ringGroupHandler(context, ev, store)} :
  \E ds \in {DialsOf(out.doc)} :
     /\ event' = ev
     /\ result' = out
     /\ store' = ringGroupStore(context, ev, store)
     /\ invoked' = "ringGroup"
     /\ rounds' = Append(rounds,
          [position |-> StateOf(ev),
           list |-> IF IsSome(out.destinations) THEN out.destinations[1] ELSE <<>>,
           after |-> ev.DialCallStatus,
           dialed |-> ds # <<>>,
           target |-> IF ds # <<>> THEN Some(ds[1].target) ELSE None,
           next |-> IF ds # <<>>
                    THEN Some(StateOf(CallbackEvent(ds[1].attrs.action[1], None, None)))
                    ELSE None])
     /\ IF ds # <<>>
        THEN phase' = "ringing" /\ pending' = ds[1].attrs.action
        ELSE phase' = "done" /\ pending' = None

StartCycle(ringGroupId, f) ==
  /\ phase = "idle"
  /\ from' = f
  /\ startGroup' = ringGroupId
  /\ lastOutcome' = None
  /\ Round(RingGroupEvent(None, ringGroupId, None, f, None))
  /\ UNCHANGED <<phones, context, edited, setupVars>>

ReportOutcome(status) ==
  /\ phase = "ringing"
  /\ Len(rounds) < MaxRounds
  /\ lastOutcome' = Some(status)
  /\ Round(CallbackEvent(pending[1], Some(status), from))
  /\ UNCHANGED <<phones, context, from, startGroup, edited, setupVars>>

\* while a dial is out, an administrator replaces the item the next round
\* will read (the handlers themselves never write the map); once per cycle
EditStore(item) ==
  /\ phase = "ringing"
  /\ ~edited
  /\ LET key == RingGroupIdOf(CallbackEvent(pending[1], None, None))
     IN /\ key \in DOMAIN store
        /\ item \in CycleItemStates(key)
        /\ item # store[key]
        /\ store' = [store EXCEPT ![key] = item]
  /\ edited' = TRUE
  /\ UNCHANGED <<phones, context, event, result, invoked, phase, from, startGroup,
                 pending, rounds, lastOutcome, setupVars>>

NextCycle ==
  \/ \E ringGroupId \in CycleGroupParams : StartCycle(ringGroupId, Some(CallerF))
  \/ \E status \in DialCallStatus : ReportOutcome(status)
  \/ \E k \in {K1, K7, K7s} : \E item \in CycleItemStates(k) : EditStore(item)

SpecCycle == InitCycle /\ [][NextCycle]_vars


----------------------------------------------------------------------------
(* String methods callTransfer and syncUtils use *)

\* String.prototype.trim
RECURSIVE TrimEnd(_)
TrimEnd(s) == IF s # <<>> /\ s[Len(s)] = " " THEN TrimEnd(SubSeq(s, 1, Len(s) - 1)) ELSE s
Trim(s) == TrimEnd(SkipWs(s))

StartsWith(s, prefix) ==
  Len(s) >= Len(prefix) /\ SubSeq(s, 1, Len(prefix)) = prefix
EndsWith(s, suffix) ==
  Len(s) >= Len(suffix) /\ SubSeq(s, Len(s) - Len(suffix) + 1, Len(s)) = suffix

\* s.slice(1, -1)
Slice1(s) == SubSeq(s, 2, Len(s) - 1)

\* the index of the first occurrence of pat in s from i on, 0 when none
RECURSIVE Find(_, _, _)
Find(s, pat, i) ==
  IF i + Len(pat) - 1 > Len(s) THEN 0
  ELSE IF SubSeq(s, i, i + Len(pat) - 1) = pat THEN i
  ELSE Find(s, pat, i + 1)

Includes_Never(s, pat) == FALSE

Includes(s, pat) == Find(s, pat, 1) # 0

\* a replace whose result is dropped
Replace_None(s, pat, rep) == s

\* s.replace(pat, rep) with a string pattern: the first occurrence only
Replace(s, pat, rep) ==
  LET i == Find(s, pat, 1)
  IN IF i = 0 THEN s
     ELSE SubSeq(s, 1, i - 1) \o rep \o SubSeq(s, i + Len(pat), Len(s))

\* the same match with the capture around the digits only
SipNumberMatch_DigitsOnly(s) ==
  IF ~StartsWith(s, <<"s", "i", "p", ":">>) THEN None
  ELSE LET rest == SubSeq(s, 5, Len(s))
           plus == rest # <<>> /\ Head(rest) = "+"
           digits == DigitsPrefix(IF plus THEN Tail(rest) ELSE rest)
           n == Len(digits) + (IF plus THEN 1 ELSE 0)
       IN IF digits # <<>> /\ Len(rest) > n /\ rest[n + 1] = "@"
          THEN Some(digits)
          ELSE None

\* /^sip:((\+)?[0-9]+)@(.*)/ : the first capture, None when no match
SipNumberMatch(s) ==
  IF ~StartsWith(s, <<"s", "i", "p", ":">>) THEN None
  ELSE LET rest == SubSeq(s, 5, Len(s))
           plus == rest # <<>> /\ Head(rest) = "+"
           digits == DigitsPrefix(IF plus THEN Tail(rest) ELSE rest)
           n == Len(digits) + (IF plus THEN 1 ELSE 0)
       IN IF digits # <<>> /\ Len(rest) > n /\ rest[n + 1] = "@"
          THEN Some(SubSeq(rest, 1, n))
          ELSE None

\* the same test with a leading zero let through: /^\+\d{2,15}$/
IsE164_AnyLeadingDigit(s) ==
  /\ Len(s) >= 3 /\ Len(s) <= 16
  /\ s[1] = "+"
  /\ \A i \in 2..Len(s) : s[i] \in Digits

\* /^\+[1-9]\d{1,14}$/
IsE164(s) ==
  /\ Len(s) >= 3 /\ Len(s) <= 16
  /\ s[1] = "+"
  /\ s[2] \in Digits \ {"0"}
  /\ \A i \in 3..Len(s) : s[i] \in Digits

----------------------------------------------------------------------------
(* syncUtils.js *)

extractPhoneFromSipUri(sipUri) ==
  IF ~Truthy(sipUri) \/ ~IsString(sipUri[1]) THEN None
  ELSE LET trimmed == Trim(sipUri[1])
           cleaned == IF StartsWith(trimmed, <<"<">>) /\ EndsWith(trimmed, <<">">>)
                      THEN Slice1(trimmed) ELSE trimmed
       IN SipNumberMatch(cleaned)

\* a numberConfig item: an error status, or the item's data: null, or an
\* object whose type and uri may each be missing
PhoneNotFound == [status |-> 404, data |-> None]
PhoneError == [status |-> 500, data |-> None]
PhoneNull == [status |-> 200, data |-> None]
PhoneRecord(type, uri) == [status |-> 200, data |-> Some([type |-> type, uri |-> uri])]

FetchPhone(map, key) == IF key \in DOMAIN map THEN map[key] ELSE PhoneNotFound

\* returns item.data, or null on a missing parameter, a 404 or any error
fetchNumberConfig(restClient, serviceSid, mapName, phoneNumber, map) ==
  IF ~restClient \/ ~serviceSid \/ ~mapName \/ ~Truthy(phoneNumber) THEN None
  ELSE LET item == FetchPhone(map, phoneNumber[1])
       IN IF item.status # 200 THEN None ELSE item.data

\* the fetches one call of fetchNumberConfig makes when a failed fetch is
\* tried once more
fetchNumberConfigReads_RetriesOnError(restClient, serviceSid, mapName, phoneNumber, map) ==
  IF ~restClient \/ ~serviceSid \/ ~mapName \/ ~Truthy(phoneNumber) THEN 0
  ELSE IF FetchPhone(map, phoneNumber[1]).status \notin {200, 404} THEN 2 ELSE 1

\* the fetches one call of fetchNumberConfig makes: the one in its try, none
\* in its catch
fetchNumberConfigReads(restClient, serviceSid, mapName, phoneNumber, map) ==
  IF ~restClient \/ ~serviceSid \/ ~mapName \/ ~Truthy(phoneNumber) THEN 0 ELSE 1

----------------------------------------------------------------------------
(* callTransfer.ts *)

\* step 2 with the '+' added to targets other than sip addresses only
NormalizeTarget_NoSipPlus(raw) ==
  LET trimmed == Trim(raw)
      target == IF StartsWith(trimmed, <<"<">>) /\ EndsWith(trimmed, <<">">>)
                THEN Slice1(trimmed) ELSE trimmed
  IN IF ~StartsWith(target, <<"s", "i", "p", ":">>) /\ ~StartsWith(target, <<"+">>)
     THEN <<"+">> \o target
     ELSE target

\* step 2: trim, strip one layer of angle brackets, add the '+'
NormalizeTarget(raw) ==
  LET trimmed == Trim(raw)
      target == IF StartsWith(trimmed, <<"<">>) /\ EndsWith(trimmed, <<">">>)
                THEN Slice1(trimmed) ELSE trimmed
  IN IF StartsWith(target, <<"s", "i", "p", ":">>) /\ ~StartsWith(target, <<"s", "i", "p", ":", "+">>)
     THEN Replace(target, <<"s", "i", "p", ":">>, <<"s", "i", "p", ":", "+">>)
     ELSE IF ~StartsWith(target, <<"s", "i", "p", ":">>) /\ ~StartsWith(target, <<"+">>)
     THEN <<"+">> \o target
     ELSE target

\* step 4: event["SipHeader_x-inin-cnv"] || event["SipHeader_User-to-User"]
\*         || event.CallSid
UUIOf_UserToUserFirst(ev) ==
  IF Truthy(ev.SipHeader_User_to_User) THEN ev.SipHeader_User_to_User
  ELSE IF Truthy(ev.SipHeader_x_inin_cnv) THEN ev.SipHeader_x_inin_cnv
  ELSE ev.CallSid

UUIOf(ev) ==
  IF Truthy(ev.SipHeader_x_inin_cnv) THEN ev.SipHeader_x_inin_cnv
  ELSE IF Truthy(ev.SipHeader_User_to_User) THEN ev.SipHeader_User_to_User
  ELSE ev.CallSid

UUIText_Empty(UUI) == <<>>

\* `${UUI}`
UUIText(UUI) == IF IsSome(UUI) THEN UUI[1] ELSE <<"u", "n", "d", "e", "f", "i", "n", "e", "d">>

\* step 5: the number of a sip: From, any other From as it is
CallerIdForTransfer(ev) ==
  IF Truthy(ev.From) /\ StartsWith(ev.From[1], <<"s", "i", "p", ":">>)
  THEN LET callerMatch == SipNumberMatch(ev.From[1])
       IN IF IsSome(callerMatch) THEN callerMatch ELSE ev.From
  ELSE ev.From

\* the type compared without regard to case
LowerOf(c) ==
  IF c = "S" THEN "s" ELSE IF c = "I" THEN "i" ELSE IF c = "P" THEN "p"
  ELSE IF c = "C" THEN "c" ELSE c

RoutingType_IgnoreCase(mapConfig) ==
  IF IsSome(mapConfig) /\ Truthy(mapConfig[1].type)
  THEN [i \in 1..Len(mapConfig[1].type[1]) |-> LowerOf(mapConfig[1].type[1][i])]
  ELSE <<"p", "s", "t", "n">>

\* mapConfig?.type || 'sip'
RoutingType_DefaultSip(mapConfig) ==
  IF IsSome(mapConfig) /\ Truthy(mapConfig[1].type) THEN mapConfig[1].type[1] ELSE <<"s", "i", "p">>

\* mapConfig?.type || 'pstn'
RoutingType(mapConfig) ==
  IF IsSome(mapConfig) /\ Truthy(mapConfig[1].type) THEN mapConfig[1].type[1] ELSE <<"p", "s", "t", "n">>

\* mapConfig?.uri || target
PstnDestination_TargetOnly(mapConfig, phoneNumber, target) ==
  IF IsSome(mapConfig) /\ Truthy(mapConfig[1].uri) THEN mapConfig[1].uri[1]
  ELSE target

\* phoneNumber || mapConfig?.uri || target
PstnDestination_NumberFirst(mapConfig, phoneNumber, target) ==
  IF Truthy(phoneNumber) THEN phoneNumber[1]
  ELSE IF IsSome(mapConfig) /\ Truthy(mapConfig[1].uri) THEN mapConfig[1].uri[1]
  ELSE target

\* mapConfig?.uri || phoneNumber || target
PstnDestination(mapConfig, phoneNumber, target) ==
  IF IsSome(mapConfig) /\ Truthy(mapConfig[1].uri) THEN mapConfig[1].uri[1]
  ELSE IF Truthy(phoneNumber) THEN phoneNumber[1]
  ELSE target

\* the <Dial> of callTransfer: no attribute but, for some nouns, callerId
TransferDialAttrs(callerId) ==
  [callerId |-> callerId, answerOnBridge |-> FALSE, timeout |-> None,
   action |-> None, method |-> "", referUrl |-> "", referMethod |-> ""]

\* what the handler gives its callback, with the locals the claims speak of
TransferOut(err, doc, target, phoneNumber, reads, UUI) ==
  [err |-> err, doc |-> doc, target |-> target, phoneNumber |-> phoneNumber,
   reads |-> reads, UUI |-> UUI, calls |-> 1]

\* a TypeError outside the try: the handler's promise rejects and the
\* callback is never invoked
Uncaught == [TransferOut(None, <<>>, None, None, 0, None) EXCEPT !.calls = 0]

\* step 6: the switch on the routing type, inside the try
Dispatch(mapConfig, target, phoneNumber, reads, UUI, callerId) ==
  LET routingType == RoutingType(mapConfig)
      thrown == TransferOut(Some("Error with callTransfer"), <<>>, Some(target),
                            phoneNumber, reads, UUI)
      ok(doc) == TransferOut(None, doc, Some(target), phoneNumber, reads, UUI)
  IN
  IF routingType = <<"s", "i", "p">>
  THEN IF ~IsSome(mapConfig) THEN ok(<<Reject("busy")>>)
       ELSE IF ~IsSome(mapConfig[1].uri) THEN thrown   \* undefined.includes
       ELSE LET sipDestination == mapConfig[1].uri[1]
                sipTarget == IF Includes(sipDestination, <<"?">>)
                             THEN sipDestination \o <<"&", "U", "s", "e", "r", "-", "t", "o", "-", "U", "s", "e", "r", "=">> \o UUIText(UUI)
                             ELSE sipDestination \o <<"?", "U", "s", "e", "r", "-", "t", "o", "-", "U", "s", "e", "r", "=">> \o UUIText(UUI)
            IN ok(<<Dial(TransferDialAttrs(None), "Sip", sipTarget)>>)
  ELSE IF routingType = <<"c", "l", "i", "e", "n", "t">>
  THEN IF ~IsSome(mapConfig) THEN ok(<<Reject("busy")>>)
       ELSE IF ~IsSome(mapConfig[1].uri) THEN thrown   \* undefined.replace
       ELSE LET clientName == Replace(mapConfig[1].uri[1], <<"c", "l", "i", "e", "n", "t", ":">>, <<>>)
            IN ok(<<Dial(TransferDialAttrs(callerId), "Client", clientName)>>)
  ELSE LET pstnDestination == PstnDestination(mapConfig, phoneNumber, target)
       IN IF ~IsE164(pstnDestination) THEN ok(<<Reject("busy")>>)
          ELSE ok(<<Dial(TransferDialAttrs(callerId), "Number", pstnDestination)>>)

\* the test of the number inverted
SyncLookup_WithoutNumber(ctx, phoneNumber) ==
  ~Truthy(phoneNumber) /\ ctx.SYNC_SERVICE_SID /\ ctx.SYNC_MAP_PHONES_NAME

\* step 3: phoneNumber && context.SYNC_SERVICE_SID && context.SYNC_MAP_PHONES_NAME
SyncLookup(ctx, phoneNumber) ==
  Truthy(phoneNumber) /\ ctx.SYNC_SERVICE_SID /\ ctx.SYNC_MAP_PHONES_NAME

\* event.ReferTransferTarget === undefined
MissingTarget_UndefinedOnly(ev) == ev.ReferTransferTarget = None

\* step 1: !event.ReferTransferTarget
MissingTarget(ev) == ~Truthy(ev.ReferTransferTarget)

\* the numberConfig map after one invocation of the handler: its only call
\* on the map is the fetch of fetchNumberConfig
callTransferPhones(ctx, ev, map) == map

callTransferHandler(ctx, ev, map) ==
  IF MissingTarget(ev)
  THEN TransferOut(Some("Missing ReferTransferTarget parameter"), <<>>, None, None, 0, None)
  ELSE IF ~IsString(ev.ReferTransferTarget[1])
  THEN Uncaught   \* event.ReferTransferTarget.trim is not a function
  ELSE
  LET target == NormalizeTarget(ev.ReferTransferTarget[1])
      phoneNumber == extractPhoneFromSipUri(Some(target))
      lookup == SyncLookup(ctx, phoneNumber)
      mapConfig == IF lookup
                   THEN fetchNumberConfig(TRUE, ctx.SYNC_SERVICE_SID,
                                          ctx.SYNC_MAP_PHONES_NAME, phoneNumber, map)
                   ELSE None
      reads == IF lookup
               THEN fetchNumberConfigReads(TRUE, ctx.SYNC_SERVICE_SID,
                                           ctx.SYNC_MAP_PHONES_NAME, phoneNumber, map)
               ELSE 0
  IN Dispatch(mapConfig, target, phoneNumber, reads, UUIOf(ev), CallerIdForTransfer(ev))

----------------------------------------------------------------------------
(* Single invocations of callTransfer with any event *)

P614 == <<"+", "6", "1", "4">>
B614 == <<"6", "1", "4">>
PLong == <<"+", "1", "2", "3", "4", "5", "6", "7", "8", "9", "0", "1", "2", "3", "4", "5", "6">>

TransferTargets ==
  {None, Some(<<>>), Some(<<" ">>), Some(ObjectValue),
   Some(<<"s", "i", "p", ":", "+", "6", "1", "4", "@", "d">>), Some(<<"s", "i", "p", ":", "6", "1", "4", "@", "d">>), Some(<<"<", "s", "i", "p", ":", "+", "6", "1", "4", "@", "d", ">">>),
   Some(<<" ", "<", "s", "i", "p", ":", "6", "1", "4", "@", "d", ":", "5", "0", "6", "0", ">", " ">>), Some(<<"+", "6", "1", "4">>), Some(<<"6", "1", "4">>), Some(<<"+", "0", "6", "1", "4">>),
   Some(<<"s", "i", "p", ":", "a", "l", "i", "c", "e", "@", "d">>), Some(<<"s", "i", "p", ":", "@", "d">>), Some(<<"t", "e", "l", ":", "+", "6", "1", "4">>),
   Some(<<"s", "i", "p", ":", "+", "1", "2", "3", "4", "5", "6", "7", "8", "9", "0", "1", "2", "3", "4", "5", "6", "@", "d">>)}

RecordTypes ==
  {None, Some(<<>>), Some(<<"s", "i", "p">>), Some(<<"c", "l", "i", "e", "n", "t">>), Some(<<"n", "u", "m", "b", "e", "r">>), Some(<<"p", "s", "t", "n">>),
   Some(<<"S", "I", "P">>), Some(<<"C", "l", "i", "e", "n", "t">>), Some(<<"a", "p", "p", "l", "i", "c", "a", "t", "i", "o", "n">>)}

RecordUris ==
  {None, Some(<<>>), Some(<<"s", "i", "p", ":", "+", "6", "1", "4", "@", "x">>), Some(<<"s", "i", "p", ":", "a", "@", "x", "?", "q", "=", "1">>), Some(<<"c", "l", "i", "e", "n", "t", ":", "a", "l">>),
   Some(<<"a", "l">>), Some(<<"x", "-", "c", "l", "i", "e", "n", "t", ":", "a", "l">>), Some(<<"+", "6", "1", "5">>), Some(<<"+", "1", "a", "b", "c">>)}

PhoneItems ==
  {PhoneNotFound, PhoneError, PhoneNull}
    \cup {PhoneRecord(type, uri) : type \in RecordTypes, uri \in RecordUris}

\* the map holds one item, under a number with or without its '+'
PhoneMaps == {[k \in {key} |-> item] : key \in {P614, B614, PLong}, item \in PhoneItems}

TransferFroms == {None, Some(<<"s", "i", "p", ":", "+", "1", "5", "@", "d">>), Some(<<"s", "i", "p", ":", "b", "o", "b", "@", "d">>), Some(CallerF)}

\* the x-inin-cnv and User-to-User headers of the REFER
TransferHeaders ==
  {<<None, None>>, <<Some(<<"X", "1">>), Some(<<"U", "1">>)>>, <<None, Some(<<"U", "1">>)>>,
   <<Some(<<>>), Some(<<"U", "1">>)>>, <<None, Some(<<>>)>>}

CallTransferEvent(target, f, headers) ==
  [CallSid |-> Some(<<"C", "A", "1">>), From |-> f, ReferTransferTarget |-> target,
   SipHeader_x_inin_cnv |-> headers[1], SipHeader_User_to_User |-> headers[2]]

TransferContexts ==
  {Context(TRUE, TRUE, TRUE), Context(FALSE, TRUE, TRUE), Context(TRUE, TRUE, FALSE)}

InitTransfer ==
  /\ store = <<>>
  /\ phones \in PhoneMaps
  /\ context \in TransferContexts
  /\ invoked = "none"
  /\ event = CallTransferEvent(None, None, <<None, None>>)
  /\ result = TransferOut(None, <<>>, None, None, 0, None)
  /\ phase = "idle"
  /\ from = None
  /\ startGroup = None
  /\ pending = None
  /\ rounds = <<>>
  /\ lastOutcome = None
  /\ edited = FALSE
  /\ SetupIdle

\* one request per behaviour, as for ringGroup
CallTransfer(target, f, headers) ==
  /\ invoked = "none"
  /\ event' = CallTransferEvent(target, f, headers)
  /\ result' = callTransferHandler(context, event', phones)
  /\ phones' = callTransferPhones(context, event', phones)
  /\ invoked' = "callTransfer"
  /\ UNCHANGED <<store, context, cycleVars, setupVars>>

NextTransfer ==
  \E target \in TransferTargets, f \in TransferFroms, headers \in TransferHeaders :
    CallTransfer(target, f, headers)

SpecTransfer == InitTransfer /\ [][NextTransfer]_vars

----------------------------------------------------------------------------
(* The normalizer and the extractor over generated addresses *)

MaxDigits == 2

RECURSIVE Sixes(_)
Sixes(n) == IF n = 0 THEN <<>> ELSE <<"6">> \o Sixes(n - 1)

\* an address: wrapping, scheme, sign, user, '@', domain, wrapping
Wrappings == {<<>>, <<" ">>, <<"<">>, <<">">>, <<" ", "<">>, <<"<", " ">>, <<">", " ">>, <<" ", ">">>, <<"<", "<">>, <<">", ">">>}
Schemes == {<<>>, <<"s", "i", "p", ":">>, <<"t", "e", "l", ":">>, <<"s", "i", "p">>}
Signs == {<<>>, <<"+">>, <<"+", "+">>}
Users == {Sixes(n) : n \in 0..MaxDigits} \cup {<<"a">>, <<"6", "a">>}
Ats == {<<>>, <<"@">>}
Domains == {<<>>, <<"d">>, <<"d", ":", "5">>}

Addresses ==
  {w1 \o scheme \o sign \o user \o at \o domain \o w2 :
     w1 \in Wrappings, scheme \in Schemes, sign \in Signs, user \in Users,
     at \in Ats, domain \in Domains, w2 \in Wrappings}

\* what a caller may hand to extractPhoneFromSipUri
ExtractInputs == {None, Some(ObjectValue)} \cup {Some(a) : a \in Addresses}

P6 == <<"+", "6">>

StringPhones ==
  {[k \in {P6} |-> item] :
     item \in {PhoneNotFound,
               PhoneRecord(Some(<<"s", "i", "p">>), Some(<<"s", "i", "p", ":", "+", "6", "1", "4", "@", "x">>))}}

ExtractEvent(sipUri) == [sipUri |-> sipUri]
ExtractOut(returned) == [returned |-> returned, threw |-> FALSE]

InitStrings ==
  /\ store = <<>>
  /\ phones \in StringPhones
  /\ context = Context(TRUE, TRUE, TRUE)
  /\ invoked = "none"
  /\ event = CallTransferEvent(None, None, <<None, None>>)
  /\ result = TransferOut(None, <<>>, None, None, 0, None)
  /\ phase = "idle"
  /\ from = None
  /\ startGroup = None
  /\ pending = None
  /\ rounds = <<>>
  /\ lastOutcome = None
  /\ edited = FALSE
  /\ SetupIdle

\* one call of the extractor
ExtractPhone(sipUri) ==
  /\ invoked = "none"
  /\ event' = ExtractEvent(sipUri)
  /\ result' = ExtractOut(extractPhoneFromSipUri(sipUri))
  /\ invoked' = "extractPhoneFromSipUri"
  /\ UNCHANGED <<store, phones, context, cycleVars, setupVars>>

\* a transfer request for a generated address
TransferAddress ==
  /\ invoked = "none"
  /\ \E a \in Addresses : CallTransfer(Some(a), None, <<None, None>>)

\* a call of the extractor on a generated input
ExtractAddress ==
  /\ invoked = "none"
  /\ \E sipUri \in ExtractInputs : ExtractPhone(sipUri)

NextStrings == TransferAddress \/ ExtractAddress

SpecStrings == InitStrings /\ [][NextStrings]_vars

----------------------------------------------------------------------------
(* Single invocations of either handler *)

HandlerStores == {[k \in {K1} |-> item] : item \in ItemStates(K1)}

HandlerPhones ==
  {[k \in {P614} |-> item] :
     item \in {PhoneNotFound, PhoneError, PhoneNull,
               PhoneRecord(Some(<<"s", "i", "p">>), Some(<<"s", "i", "p", ":", "+", "6", "1", "4", "@", "x">>)),
               PhoneRecord(Some(<<"n", "u", "m", "b", "e", "r">>), None)}}

HandlerContexts ==
  {Context(TRUE, TRUE, TRUE), Context(FALSE, TRUE, TRUE), Context(TRUE, FALSE, FALSE)}

InitHandlers ==
  /\ store \in HandlerStores
  /\ phones \in HandlerPhones
  /\ context \in HandlerContexts
  /\ invoked = "none"
  /\ event = NoEvent
  /\ result = NoResult
  /\ phase = "idle"
  /\ from = None
  /\ startGroup = None
  /\ pending = None
  /\ rounds = <<>>
  /\ lastOutcome = None
  /\ edited = FALSE
  /\ SetupIdle

NextHandlers == Next \/ NextTransfer

SpecHandlers == InitHandlers /\ [][NextHandlers]_vars

----------------------------------------------------------------------------
(* fetchRingGroupConfig called on its own *)

FetchItemStates(key) == ItemStates(key) \cup {NullDataItem, GroupNotArrayItem}

FetchStores == {[k \in {K1} |-> item] : item \in FetchItemStates(K1)}

FetchEvent(restClient, serviceSid, mapName, ringGroupId) ==
  [restClient |-> restClient, serviceSid |-> serviceSid, mapName |-> mapName,
   ringGroupId |-> ringGroupId]
FetchOut(returned) == [returned |-> returned, threw |-> FALSE]

InitFetch ==
  /\ store \in FetchStores
  /\ phones = <<>>
  /\ context \in Contexts
  /\ invoked = "none"
  /\ event = NoEvent
  /\ result = NoResult
  /\ phase = "idle"
  /\ from = None
  /\ startGroup = None
  /\ pending = None
  /\ rounds = <<>>
  /\ lastOutcome = None
  /\ edited = FALSE
  /\ SetupIdle

\* one call of fetchRingGroupConfig
FetchRingGroup(restClient, serviceSid, mapName, ringGroupId) ==
  /\ invoked = "none"
  /\ event' = FetchEvent(restClient, serviceSid, mapName, ringGroupId)
  /\ result' = FetchOut(fetchRingGroupConfig(restClient, serviceSid, mapName, ringGroupId, store))
  /\ store' = fetchRingGroupConfigStore(restClient, serviceSid, mapName, ringGroupId, store)
  /\ invoked' = "fetchRingGroupConfig"
  /\ UNCHANGED <<phones, context, cycleVars, setupVars>>

NextFetch ==
  \E restClient \in BOOLEAN, serviceSid \in BOOLEAN, mapName \in BOOLEAN,
     ringGroupId \in {<<>>, K1, K7} :
    FetchRingGroup(restClient, serviceSid, mapName, ringGroupId)

SpecFetch == InitFetch /\ [][NextFetch]_vars

----------------------------------------------------------------------------
(* setupSync.ts: runs of the handler against the account's Sync services.  *)
(* A run gives up control at each await; what it reads or writes at the    *)
(* API happens in the step that resumes it.                                *)

\* runs of setupSync followed in one behaviour
MaxRuns == 3

\* services.list({ limit: 100 })
ListLimit == 100

ServiceName == "pbx-routing"
MapName == "numberConfig"
\* SYNC_MAP_RINGGROUP_NAME of the deployment the README describes
RingGroupMapName == "ringGroup"
OtherName == "other"

SetupContext(serviceName, mapName) ==
  [SYNC_SERVICE_NAME |-> serviceName, SYNC_MAP_PHONES_NAME |-> mapName]

SetupContexts ==
  {SetupContext(Some(ServiceName), Some(MapName)),
   SetupContext(None, Some(MapName)),
   SetupContext(Some(ServiceName), Some(""))}

\* the account: its services in list order, each with its maps, and the
\* number the next SID is made of
\* a map is created without items
SyncMap(sid, uniqueName) == [sid |-> sid, uniqueName |-> uniqueName, items |-> <<>>]
SyncService(sid, friendlyName, maps) ==
  [sid |-> sid, friendlyName |-> friendlyName, maps |-> maps]
Account(services, next) == [services |-> services, next |-> next]

Accounts ==
  {Account(<<>>, 1),
   Account(<<SyncService(1, OtherName, <<SyncMap(2, MapName)>>)>>, 3),
   Account(<<SyncService(1, ServiceName, <<>>)>>, 2),
   Account(<<SyncService(1, ServiceName, <<SyncMap(2, MapName)>>)>>, 3)}

\* client.sync.v1.services.list({ limit: 100 })
ListServices(account) ==
  SubSeq(account.services, 1,
         IF Len(account.services) < ListLimit THEN Len(account.services) ELSE ListLimit)

\* a find that matches nothing
FindService_Never(services, serviceName) == None

\* services.find(s => s.friendlyName === serviceName)
FindService(services, serviceName) ==
  LET hits == {i \in 1..Len(services) : services[i].friendlyName = serviceName}
  IN IF hits = {} THEN None
     ELSE Some(services[CHOOSE i \in hits : \A j \in hits : i <= j])

\* services(serviceSid).syncMaps(mapName).fetch(): the map, None for a 404
ServiceAt(account, serviceSid) ==
  CHOOSE i \in 1..Len(account.services) : account.services[i].sid = serviceSid
FetchMap(account, serviceSid, mapName) ==
  LET maps == account.services[ServiceAt(account, serviceSid)].maps
      hits == {j \in 1..Len(maps) : maps[j].uniqueName = mapName}
  IN IF hits = {} THEN None ELSE Some(maps[CHOOSE j \in hits : TRUE])

\* services.create({ friendlyName }): friendly names need not be unique
CreateService(account, friendlyName) ==
  Account(Append(account.services, SyncService(account.next, friendlyName, <<>>)),
          account.next + 1)

\* services(serviceSid).syncMaps.create({ uniqueName })
CreateMap(account, serviceSid, uniqueName) ==
  LET i == ServiceAt(account, serviceSid)
  IN Account([account.services EXCEPT ![i].maps = Append(@, SyncMap(account.next, uniqueName))],
             account.next + 1)

\* a run: where it waits and its locals
Locals(pc, serviceSid, serviceCreated, mapSid, mapCreated) ==
  [pc |-> pc, serviceSid |-> serviceSid, serviceCreated |-> serviceCreated,
   mapSid |-> mapSid, mapCreated |-> mapCreated]

\* the response a run gives its callback: the status code, the status of
\* the error it reports, and what the page shows
SetupResponse(run, statusCode, error, l) ==
  [run |-> run, statusCode |-> statusCode, error |-> error,
   serviceSid |-> l.serviceSid, serviceCreated |-> l.serviceCreated,
   mapSid |-> l.mapSid, mapCreated |-> l.mapCreated]

Waiting == {"list", "createService", "fetchMap", "createMap"}

InitSetup ==
  /\ store = <<>>
  /\ phones = <<>>
  /\ context \in SetupContexts
  /\ invoked = "none"
  /\ event = NoEvent
  /\ result = NoResult
  /\ phase = "idle"
  /\ from = None
  /\ startGroup = None
  /\ pending = None
  /\ rounds = <<>>
  /\ lastOutcome = None
  /\ edited = FALSE
  /\ sync \in Accounts
  /\ setup = <<>>
  /\ responses = <<>>

\* the callback of run r with the response, which ends the run
Respond(r, statusCode, error, l) ==
  /\ responses' = Append(responses, SetupResponse(r, statusCode, error, l))
  /\ setup' = [setup EXCEPT ![r] = [l EXCEPT !.pc = "done"]]

\* a request arrives: the check of the environment, then the list call.
\* Without overlap a run starts only when every earlier run has ended.
StartSetup(overlap) ==
  /\ Len(setup) < MaxRuns
  /\ overlap \/ \A r \in 1..Len(setup) : setup[r].pc = "done"
  /\ LET r == Len(setup) + 1
         l == Locals("list", None, FALSE, None, FALSE)
     IN IF ~TruthyAtom(context.SYNC_SERVICE_NAME) \/ ~TruthyAtom(context.SYNC_MAP_PHONES_NAME)
        THEN /\ setup' = Append(setup, [l EXCEPT !.pc = "done"])
             /\ responses' = Append(responses, SetupResponse(r, 400, None, l))
        ELSE /\ setup' = Append(setup, l)
             /\ UNCHANGED responses
  /\ invoked' = "setupSync"
  /\ UNCHANGED <<store, phones, context, event, result, cycleVars, sync>>

\* step 1: the list arrives; the service is found, or its creation is asked
ServicesListed(r) ==
  /\ r \in 1..Len(setup) /\ setup[r].pc = "list"
  /\ LET existingService == FindService(ListServices(sync), context.SYNC_SERVICE_NAME[1])
     IN setup' = [setup EXCEPT ![r] =
          IF IsSome(existingService)
          THEN [@ EXCEPT !.pc = "fetchMap", !.serviceSid = Some(existingService[1].sid)]
          ELSE [@ EXCEPT !.pc = "createService"]]
  /\ UNCHANGED <<store, phones, context, event, result, invoked, cycleVars, sync, responses>>

\* step 1: the service is created
ServiceCreated(r) ==
  /\ r \in 1..Len(setup) /\ setup[r].pc = "createService"
  /\ sync' = CreateService(sync, context.SYNC_SERVICE_NAME[1])
  /\ setup' = [setup EXCEPT ![r] =
       [@ EXCEPT !.pc = "fetchMap", !.serviceSid = Some(sync.next), !.serviceCreated = TRUE]]
  /\ UNCHANGED <<store, phones, context, event, result, invoked, cycleVars, responses>>

\* step 2: the fetch of the map answers: the map, and the page is given; or
\* a 404, and the creation of the map is asked
MapFetched(r) ==
  /\ r \in 1..Len(setup) /\ setup[r].pc = "fetchMap"
  /\ LET existingMap == FetchMap(sync, setup[r].serviceSid[1], context.SYNC_MAP_PHONES_NAME[1])
     IN IF IsSome(existingMap)
        THEN Respond(r, 200, None, [setup[r] EXCEPT !.mapSid = Some(existingMap[1].sid)])
        ELSE /\ setup' = [setup EXCEPT ![r].pc = "createMap"]
             /\ UNCHANGED responses
  /\ UNCHANGED <<store, phones, context, event, result, invoked, cycleVars, sync>>

\* step 2, in the handler of the 404: the map is created and the page is
\* given; a map of that unique name made meanwhile is a 409, which leaves
\* the handler of the 404 and is reported by the outer catch
MapCreated(r) ==
  /\ r \in 1..Len(setup) /\ setup[r].pc = "createMap"
  /\ IF IsSome(FetchMap(sync, setup[r].serviceSid[1], context.SYNC_MAP_PHONES_NAME[1]))
     THEN /\ Respond(r, 500, Some(409), setup[r])
          /\ UNCHANGED sync
     ELSE /\ sync' = CreateMap(sync, setup[r].serviceSid[1], context.SYNC_MAP_PHONES_NAME[1])
          /\ Respond(r, 200, None,
                     [setup[r] EXCEPT !.mapSid = Some(sync.next), !.mapCreated = TRUE])
  /\ UNCHANGED <<store, phones, context, event, result, invoked, cycleVars>>

\* any of the four API calls fails (other than the 404 of the map fetch):
\* the error is thrown on and the outer catch answers 500
ApiError(r) ==
  /\ r \in 1..Len(setup) /\ setup[r].pc \in Waiting
  /\ Respond(r, 500, Some(503), setup[r])
  /\ UNCHANGED <<store, phones, context, event, result, invoked, cycleVars, sync>>

SetupStep(r) ==
  \/ ServicesListed(r)
  \/ ServiceCreated(r)
  \/ MapFetched(r)
  \/ MapCreated(r)
  \/ ApiError(r)

\* runs one after the other
NextSetup ==
  \/ StartSetup(FALSE)
  \/ \E r \in 1..MaxRuns : SetupStep(r)

SpecSetup == InitSetup /\ [][NextSetup]_vars

\* runs that may overlap
NextSetupOverlap ==
  \/ StartSetup(TRUE)
  \/ \E r \in 1..MaxRuns : SetupStep(r)

SpecSetupOverlap == InitSetup /\ [][NextSetupOverlap]_vars

----------------------------------------------------------------------------
(* Properties of a single ringGroup invocation (Spec) *)

Ran == invoked = "ringGroup"

\* the invocation fetched a list with at least one destination
FetchedList == IF IsSome(result.destinations) THEN result.destinations[1] ELSE <<>>
FetchedNonEmpty == Ran /\ Len(FetchedList) > 0

Position == StateOf(event)

\* the outcomes the specification calls failure outcomes
FailureOutcomes == {"busy", "cancelled", "no-answer", "failed"}
FailedBefore ==
  IsSome(event.DialCallStatus) /\ event.DialCallStatus[1] \in FailureOutcomes

\* the document is one dial of the destination at index p (from 0)
DialsIndex(p) ==
  /\ Len(result.doc) = 1
  /\ result.doc[1].verb = "Dial"
  /\ p + 1 \in 1..Len(FetchedList)
  /\ result.doc[1].target = FetchedList[p + 1].destination

\* C2: with a non-empty list fetched and position > 0, an absent or
\* non-failure previous outcome gives a response with no instruction at all,
\* at every position, also at or beyond the length of the list.
C2_AnsweredEmitsNothing ==
  (FetchedNonEmpty /\ Gt(Position, 0) /\ ~FailedBefore) => result.doc = <<>>

\* C3: with position > 0 and a failure outcome, position < N dials exactly
\* the destination at index position, position >= N gives an empty response.
C3_FailureAdvances ==
  (FetchedNonEmpty /\ Gt(Position, 0) /\ FailedBefore) =>
    IF Position.val < Len(FetchedList)
    THEN DialsIndex(Position.val)
    ELSE result.doc = <<>>

C3_Witness ==
  /\ FetchedNonEmpty /\ FailedBefore
  /\ Position = Num(2) /\ Len(FetchedList) = 3
  /\ DialsIndex(2)

\* C4: position 0 with a non-empty list dials destination 0, whatever the
\* previous outcome is (absent, failure, completed, answered).
C4_FirstRoundDials ==
  (FetchedNonEmpty /\ Position = Num(0)) => DialsIndex(0)

C4_Witness ==
  /\ FetchedNonEmpty /\ Position = Num(0)
  /\ event.DialCallStatus = Some("completed")
  /\ DialsIndex(0)

\* the item the invocation read
ItemRead == Fetch(store, RingGroupIdOf(event))
Configured == context.SYNC_SERVICE_SID /\ context.SYNC_MAP_RINGGROUP_NAME
ConfigurationFault ==
  \/ ItemRead.status = 404
  \/ ItemRead.status # 200
  \/ ItemRead.shape # "group"
  \/ ItemRead.group = <<>>
Exhausted ==
  /\ ~ConfigurationFault
  /\ Gt(Position, 0) /\ FailedBefore /\ Position.val >= Len(ItemRead.group)

\* C7: a read that yields not-found, an error, a shape without a group array
\* or an empty list gives say + hangup and no dial; exhaustion after
\* attempts gives an empty response instead (no say, no hangup).
C7_ConfigurationFault ==
  (Ran /\ Configured) =>
    /\ ConfigurationFault => VerbsOf(result.doc) = <<"Say", "Hangup">>
    /\ Exhausted => result.doc = <<>>

C7_Witness ==
  /\ Ran /\ Configured
  /\ ItemRead.shape = "array"
  /\ VerbsOf(result.doc) = <<"Say", "Hangup">>

\* C9: an invocation whose state is missing, empty or not a number behaves
\* like one with position 0: it dials destination 0 of a non-empty list.
C9_StateDefaultsToZero ==
  (FetchedNonEmpty /\ (~Truthy(event.state) \/ Position.nan)) => DialsIndex(0)

\* the cursor a request to the action address of the response carries
CursorOf(url) == CallbackEvent(url, None, None)

\* C8: the query string of the action address of a dial round at position p
\* for group g parses to state = p + 1 and ringGroupId = g (g being "1"
\* when the event has none).
C8_CursorRoundTrip ==
  (Ran /\ DialsOf(result.doc) # <<>>) =>
    LET cursor == CursorOf(result.doc[1].attrs.action[1])
    IN /\ StateOf(cursor) = Num(Position.val + 1)
       /\ RingGroupIdOf(cursor) = RingGroupIdOf(event)

----------------------------------------------------------------------------
(* Properties of a ring cycle (SpecCycle) *)

DialRounds == SelectSeq(rounds, LAMBDA r : r.dialed)

\* every round of the cycle fetched the list the first round fetched
ListUnchanged == \A i \in 1..Len(rounds) : rounds[i].list = rounds[1].list

\* C1: with the list unchanged and the platform requesting each action
\* address with the outcome of its dial, the destinations dialed over the
\* cycle are list[0], list[1], ... in order, each at most once, and the next
\* one is dialed only after a failure outcome of the one before.
C1_CycleOrder ==
  ListUnchanged =>
    \A i \in 1..Len(DialRounds) :
      /\ i <= Len(rounds[1].list)
      /\ DialRounds[i].target = Some(rounds[1].list[i].destination)
      /\ i > 1 => /\ IsSome(DialRounds[i].after)
                  /\ DialRounds[i].after[1] \in FailureOutcomes

C1_Witness ==
  /\ ListUnchanged
  /\ Len(DialRounds) = 3
  /\ DialRounds[3].target = Some(rounds[1].list[3].destination)
  /\ DialRounds[3].after = Some("no-answer")

\* C5: a round that dials at position p encodes p + 1 in its action
\* address, and along the chain of callbacks the position goes 0, 1, 2, ...:
\* it never decreases, repeats or skips.
C5_PositionAdvancesByOne ==
  \A i \in 1..Len(rounds) :
    /\ rounds[i].position = Num(i - 1)
    /\ rounds[i].dialed => rounds[i].next = Some(Num(i))

C5_Witness ==
  /\ Len(rounds) = 3
  /\ rounds[3].dialed
  /\ rounds[3].position = Num(2)
  /\ rounds[3].next = Some(Num(3))

\* a step of the cycle that is a round, the round, and the list the store
\* holds, at that step, for the group the round's request names
RoundTaken == Len(rounds') = Len(rounds) + 1
LastRound == rounds'[Len(rounds')]
ListHeld ==
  LET key == IF Truthy(event'.ringGroupId) THEN event'.ringGroupId[1] ELSE K1
      item == IF key \in DOMAIN store THEN store[key] ELSE NotFound
  IN IF item.status = 200 /\ item.shape = "group" THEN item.group ELSE <<>>

\* C24: every round reads the list afresh: a round at position p dials
\* element p of the list the store holds when the round runs, also after an
\* edit between two rounds, and dials nothing the store no longer holds.
C24_ListReadAfresh ==
  [][RoundTaken =>
       LET p == LastRound.position
           failed == IsSome(event'.DialCallStatus)
                       /\ event'.DialCallStatus[1] \in FailureOutcomes
       IN /\ LastRound.list = ListHeld
          /\ LastRound.dialed <=>
               (p.val < Len(ListHeld) /\ (p.val = 0 \/ failed))
          /\ LastRound.dialed =>
               LastRound.target = Some(ListHeld[p.val + 1].destination)]_vars

C24_Witness ==
  /\ edited /\ Len(rounds) >= 2
  /\ rounds[1].dialed /\ rounds[2].dialed
  /\ Len(rounds[1].list) >= 2 /\ Len(rounds[2].list) >= 2
  /\ rounds[2].list # rounds[1].list
  /\ rounds[2].target = Some(rounds[2].list[2].destination)
  /\ rounds[2].target # Some(rounds[1].list[2].destination)

\* no round of the cycle fetched a list longer than the first round's
ListNeverGrows == \A i \in 1..Len(rounds) : Len(rounds[i].list) <= Len(rounds[1].list)

\* C6: with a list of length N that does not grow, under any outcomes the
\* cycle emits at most N dials and ends: it has at most N + 1 rounds, and
\* the round after N dials emits no dial.
C6_CycleTerminates ==
  (rounds # <<>> /\ ListNeverGrows) =>
    LET N == Len(rounds[1].list)
    IN /\ Len(DialRounds) <= N
       /\ Len(rounds) <= N + 1
       /\ Len(rounds) = N + 1 => phase = "done"

C6_Witness ==
  /\ ListNeverGrows
  /\ Len(rounds) = 4 /\ Len(rounds[1].list) = 3
  /\ Len(DialRounds) = 3
  /\ phase = "done"

----------------------------------------------------------------------------
(* Properties of a single callTransfer invocation (SpecTransfer) *)

Transferred == invoked = "callTransfer"
\* the event holds a target: a non-empty string
TargetPresent ==
  /\ Transferred /\ Truthy(event.ReferTransferTarget)
  /\ IsString(event.ReferTransferTarget[1])

\* the four outcomes of a transfer request
SipDial == Len(result.doc) = 1 /\ result.doc[1].verb = "Dial" /\ result.doc[1].noun = "Sip"
ClientDial == Len(result.doc) = 1 /\ result.doc[1].verb = "Dial" /\ result.doc[1].noun = "Client"
NumberDial == Len(result.doc) = 1 /\ result.doc[1].verb = "Dial" /\ result.doc[1].noun = "Number"
Rejected == Len(result.doc) = 1 /\ result.doc[1].verb = "Reject"

\* C10: a transfer request that carries a target ends, whatever the target
\* and whatever the numberConfig item (a record without uri included), in a
\* response document that is exactly one of a sip dial, a client dial, a
\* number dial or a reject.
C10_TransferSingleOutcome ==
  TargetPresent =>
    /\ result.err = None
    /\ SipDial \/ ClientDial \/ NumberDial \/ Rejected

\* the handler looked the extracted number up, and the item it was given
Looked == Transferred /\ result.reads = 1
ItemLooked == FetchPhone(phones, result.phoneNumber[1])

\* the record the handler routed on (absent when it got none)
RecordSeen == IF Looked /\ ItemLooked.status = 200 THEN ItemLooked.data ELSE None

\* '+', a nonzero digit and 1 to 14 further digits
E164Shape(s) ==
  /\ Len(s) \in 3..16
  /\ s[1] = "+"
  /\ s[2] \in {"1", "2", "3", "4", "5", "6", "7", "8", "9"}
  /\ \A i \in 3..Len(s) : s[i] \in Digits

\* the extracted number, or the raw normalized target when none was extracted
Fallback(r) == IF Truthy(r.phoneNumber) THEN r.phoneNumber[1] ELSE r.target[1]

\* r is the outcome of the PSTN path on dest for the caller of ev: a number
\* dial of dest with the caller as caller ID when dest passes the E.164 gate,
\* reject(busy) when it does not
PstnOutcome(r, ev, dest) ==
  /\ r.err = None
  /\ Len(r.doc) = 1
  /\ IF E164Shape(dest)
     THEN /\ r.doc[1].verb = "Dial" /\ r.doc[1].noun = "Number"
          /\ r.doc[1].target = dest
          /\ r.doc[1].attrs.callerId = CallerIdForTransfer(ev)
     ELSE r.doc[1] = Reject("busy")

\* the store of the state with every item not found, and with every read failing
MissStore == [k \in DOMAIN phones |-> PhoneNotFound]
ErrorStore == [k \in DOMAIN phones |-> PhoneError]
MissOrError == Looked /\ ItemLooked.status # 200

\* C11 as stated: for every target, caller and token a store that reports
\* not-found and a store that fails give the same outcome, and that outcome is
\* a number dial of the extracted number, never an error or a dropped call.
C11_MissAlwaysDispatches ==
  MissOrError =>
    /\ callTransferHandler(context, event, MissStore)
         = callTransferHandler(context, event, ErrorStore)
    /\ result.err = None
    /\ NumberDial /\ result.doc[1].target = result.phoneNumber[1]

\* C11 amended: not-found and a failing store give the same outcome, the PSTN
\* path on the extracted number (or the raw normalized target): a number dial
\* when that passes the E.164 gate, reject(busy) when it does not, never an
\* error.
C11_MissAndErrorAlike ==
  TargetPresent =>
    LET miss == callTransferHandler(context, event, MissStore)
        error == callTransferHandler(context, event, ErrorStore)
    IN /\ miss = error
       /\ PstnOutcome(miss, event, Fallback(miss))
       /\ MissOrError => result = miss

C11_Witness ==
  /\ MissOrError /\ ItemLooked = PhoneError
  /\ NumberDial /\ result.doc[1].target = P614
  /\ result.doc[1].attrs.callerId = Some(<<"+", "1", "5">>)

\* the normalized target of the event and the number extraction gives on it
Normalized == NormalizeTarget(event.ReferTransferTarget[1])
Extracted == extractPhoneFromSipUri(Some(Normalized))
SyncConfigured == context.SYNC_SERVICE_SID /\ context.SYNC_MAP_PHONES_NAME

\* C12: the store is read exactly when a number was extracted from the
\* normalized target and both SYNC_SERVICE_SID and SYNC_MAP_PHONES_NAME are
\* set; without a read the call takes the PSTN path on the extracted number,
\* or on the raw normalized target when none was extracted.
C12_ReadsOnlyWhenResolvable ==
  TargetPresent =>
    /\ Looked <=> (Extracted # None /\ SyncConfigured)
    /\ ~Looked => PstnOutcome(result, event,
                              IF Extracted # None THEN Extracted[1] ELSE Normalized)

C12_Witness ==
  /\ TargetPresent /\ ~SyncConfigured
  /\ Extracted = Some(P614) /\ P614 \in DOMAIN phones
  /\ ItemLooked.status = 200 /\ ItemLooked.data # None
  /\ ~Looked
  /\ NumberDial /\ result.doc[1].target = P614

\* the kind and the uri of the record the handler routed on, absent without one
KindSeen == IF IsSome(RecordSeen) THEN RecordSeen[1].type ELSE None
UriSeen == IF IsSome(RecordSeen) THEN RecordSeen[1].uri ELSE None

\* the request is on the PSTN path: no record, or a record whose kind is
\* neither 'sip' nor 'client'
OnPstnPath ==
  TargetPresent /\ KindSeen \notin {Some(<<"s", "i", "p">>), Some(<<"c", "l", "i", "e", "n", "t">>)}

\* the first non-empty of a sequence of optional strings (the last as it is)
RECURSIVE FirstNonEmpty(_)
FirstNonEmpty(opts) ==
  IF Len(opts) = 1 \/ Truthy(Head(opts)) THEN Head(opts)[1] ELSE FirstNonEmpty(Tail(opts))

\* C13: on the PSTN path the destination is the first non-empty of the
\* record's uri, the extracted number and the raw normalized target, in that
\* order, and the dial carries the extracted caller identity as caller ID.
C13_PstnDestinationOrder ==
  OnPstnPath =>
    PstnOutcome(result, event, FirstNonEmpty(<<UriSeen, Extracted, Some(Normalized)>>))

C13_Witness ==
  /\ OnPstnPath /\ KindSeen = Some(<<"n", "u", "m", "b", "e", "r">>)
  /\ UriSeen = Some(<<"+", "6", "1", "5">>) /\ Extracted = Some(P614)
  /\ event.From = Some(<<"s", "i", "p", ":", "+", "1", "5", "@", "d">>)
  /\ NumberDial /\ result.doc[1].target = <<"+", "6", "1", "5">>
  /\ result.doc[1].attrs.callerId = Some(<<"+", "1", "5">>)

\* C14: every number callTransfer dials is a '+', a nonzero digit and 1 to
\* 14 further digits; when the chosen PSTN destination has another shape the
\* response is reject(busy) and holds no dial.
C14_E164Gate ==
  Transferred =>
    /\ NumberDial => E164Shape(result.doc[1].target)
    /\ (OnPstnPath /\ ~E164Shape(FirstNonEmpty(<<UriSeen, Extracted, Some(Normalized)>>)))
         => /\ result.err = None
            /\ result.doc = <<Reject("busy")>>

C14_Witness ==
  /\ OnPstnPath /\ KindSeen = Some(<<"n", "u", "m", "b", "e", "r">>) /\ UriSeen = Some(<<"+", "1", "a", "b", "c">>)
  /\ Extracted = Some(P614)
  /\ result.doc = <<Reject("busy")>>

\* the name of the parameter that carries the correlation token
UserToUser == <<"U", "s", "e", "r", "-", "t", "o", "-", "U", "s", "e", "r", "=">>

\* the token the specification asks for: the x-inin-cnv header when present
\* and non-empty, else the User-to-User header when present and non-empty,
\* else the CallSid
ExpectedToken ==
  FirstNonEmpty(<<event.SipHeader_x_inin_cnv, event.SipHeader_User_to_User, event.CallSid>>)

\* C15: the response carries the correlation token exactly when it is a SIP
\* dial: a SIP dial has 'User-to-User=<token>' in its target, a number dial
\* and a client dial have no User-to-User parameter, a reject is the bare
\* reject(busy).
C15_TokenOnSipOnly ==
  Transferred =>
    /\ SipDial => Includes(result.doc[1].target, UserToUser \o ExpectedToken)
    /\ (NumberDial \/ ClientDial) => ~Includes(result.doc[1].target, UserToUser)
    /\ Rejected => result.doc[1] = Reject("busy")

C15_Witness ==
  /\ SipDial /\ event.SipHeader_x_inin_cnv = Some(<<"X", "1">>)
  /\ Includes(result.doc[1].target, UserToUser \o <<"X", "1">>)

\* C16: the token is the x-inin-cnv header if present and non-empty, else
\* the User-to-User header if present and non-empty, else the CallSid; one
\* value per invocation, and a SIP dial ends in 'User-to-User=' and that value.
C16_TokenPriority ==
  TargetPresent =>
    /\ result.UUI = Some(ExpectedToken)
    /\ SipDial => EndsWith(result.doc[1].target, UserToUser \o ExpectedToken)

C16_Witness ==
  /\ SipDial
  /\ event.SipHeader_x_inin_cnv = Some(<<>>) /\ event.SipHeader_User_to_User = Some(<<"U", "1">>)
  /\ result.UUI = Some(<<"U", "1">>)
  /\ EndsWith(result.doc[1].target, UserToUser \o <<"U", "1">>)

\* uri with the token appended: joined by '&' when uri has a '?', by '?' otherwise
WithToken(uri, token) ==
  uri \o (IF \E i \in 1..Len(uri) : uri[i] = "?" THEN <<"&">> ELSE <<"?">>)
      \o UserToUser \o token

\* C17: when the record has kind sip, the response is one SIP dial of the
\* record's uri with 'User-to-User=<token>' appended, joined by '&' if the
\* uri already has a '?' and by '?' otherwise, whatever the domain of the
\* transfer target.
C17_SipRecordDialsUri ==
  (TargetPresent /\ KindSeen = Some(<<"s", "i", "p">>) /\ IsSome(UriSeen)) =>
    /\ result.err = None
    /\ SipDial
    /\ result.doc[1].target = WithToken(UriSeen[1], ExpectedToken)

C17_Witness ==
  /\ TargetPresent /\ KindSeen = Some(<<"s", "i", "p">>)
  /\ Normalized = <<"s", "i", "p", ":", "+", "6", "1", "4", "@", "d">>
  /\ UriSeen = Some(<<"s", "i", "p", ":", "a", "@", "x", "?", "q", "=", "1">>)
  /\ SipDial /\ result.doc[1].target = <<"s", "i", "p", ":", "a", "@", "x", "?", "q", "=", "1", "&", "U", "s", "e", "r", "-", "t", "o", "-", "U", "s", "e", "r", "=", "C", "A", "1">>

\* s without the prefix when it starts with it, s itself otherwise
StripPrefix(s, prefix) ==
  IF Len(s) >= Len(prefix) /\ SubSeq(s, 1, Len(prefix)) = prefix
  THEN SubSeq(s, Len(prefix) + 1, Len(s))
  ELSE s

\* C19: when the record has kind client, the response is one client dial
\* whose name is the record's uri with a leading 'client:' removed and every
\* other character as it was, with the caller identity as caller ID and no
\* correlation token.
C19_ClientRecordDialsName ==
  (TargetPresent /\ KindSeen = Some(<<"c", "l", "i", "e", "n", "t">>) /\ IsSome(UriSeen)) =>
    /\ result.err = None
    /\ ClientDial
    /\ result.doc[1].target = StripPrefix(UriSeen[1], <<"c", "l", "i", "e", "n", "t", ":">>)
    /\ result.doc[1].attrs.callerId = CallerIdForTransfer(event)
    /\ ~Includes(result.doc[1].target, UserToUser)

\* C20: a record whose kind is not exactly 'sip' or 'client' ('SIP',
\* 'Client', 'application', empty or missing included) gives no SIP dial and
\* no client dial: it takes the PSTN path and its E.164 gate.
C20_KindCatchAll ==
  (TargetPresent /\ IsSome(RecordSeen) /\ KindSeen \notin {Some(<<"s", "i", "p">>), Some(<<"c", "l", "i", "e", "n", "t">>)}) =>
    /\ ~SipDial /\ ~ClientDial
    /\ PstnOutcome(result, event, FirstNonEmpty(<<UriSeen, Extracted, Some(Normalized)>>))

C20_Witness ==
  /\ TargetPresent /\ KindSeen = Some(<<"S", "I", "P">>)
  /\ UriSeen = Some(<<"s", "i", "p", ":", "+", "6", "1", "4", "@", "x">>)
  /\ result.doc = <<Reject("busy")>>

----------------------------------------------------------------------------
(* Properties of every response, of ringGroup and of callTransfer *)

\* C18: no SIP dial of a response, from callTransfer or from a ringGroup
\* round with a sip destination, carries a caller ID.
C18_SipDialHasNoCallerId ==
  \A i \in 1..Len(result.doc) :
    (result.doc[i].verb = "Dial" /\ result.doc[i].noun = "Sip")
      => result.doc[i].attrs.callerId = None

----------------------------------------------------------------------------
(* Properties of a single invocation of either handler (SpecHandlers) *)

\* C21: a request whose ReferTransferTarget is missing or empty gets the
\* error 'Missing ReferTransferTarget parameter' and no document, before any
\* normalization, store read or dispatch.
C21_MissingTargetFailsFast ==
  (Transferred /\ ~Truthy(event.ReferTransferTarget)) =>
    /\ result.err = Some("Missing ReferTransferTarget parameter")
    /\ result.doc = <<>>
    /\ result.reads = 0
    /\ result.target = None /\ result.phoneNumber = None /\ result.UUI = None
    /\ result.calls = 1

C21_Witness ==
  /\ Transferred /\ event.ReferTransferTarget = Some(<<>>)
  /\ P614 \in DOMAIN phones /\ SyncConfigured
  /\ result.err = Some("Missing ReferTransferTarget parameter")

\* C22: one invocation of callTransfer fetches from the store at most once,
\* one invocation of ringGroup fetches at most once (the whole list), and a
\* fetch that fails is not tried again.
C22_AtMostOneRead ==
  /\ Transferred => result.reads <= 1
  /\ Ran => ringGroupReads(context, event, store) <= 1

C22_Witness ==
  /\ Transferred /\ result.reads = 1
  /\ FetchPhone(phones, result.phoneNumber[1]) = PhoneError
  /\ NumberDial

\* C23: every invocation of callTransfer and of ringGroup, whatever the
\* event (fields that are not strings included), the store response and the
\* position, invokes its callback exactly once, with a document or with an
\* error value.
C23_CallbackExactlyOnce ==
  (Ran \/ Transferred) => result.calls = 1

----------------------------------------------------------------------------
(* Properties of the normalizer and the extractor (SpecStrings) *)

\* C26: normalizing the normalized transfer target returns it unchanged, for
\* every target string.
C26_NormalizeIdempotent ==
  TargetPresent => NormalizeTarget(result.target[1]) = result.target[1]

\* a target that starts with 'sip:', needs no trimming and holds no digit
NoDigits(s) == \A i \in 1..Len(s) : s[i] \notin Digits
DigitlessSip ==
  /\ TargetPresent
  /\ LET raw == event.ReferTransferTarget[1]
     IN /\ Len(raw) >= 4 /\ SubSeq(raw, 1, 4) = <<"s", "i", "p", ":">>
        /\ raw[Len(raw)] # " "
        /\ NoDigits(raw)

\* C27 as stated: a target that starts with 'sip:' and has no digits is left
\* unmodified by the normalization, and is then rejected.
C27_DigitlessSipUnmodified ==
  DigitlessSip =>
    /\ result.target = event.ReferTransferTarget
    /\ result.doc = <<Reject("busy")>>

\* the target with a '+' right after 'sip:'
SipPlus(raw) ==
  IF Len(raw) >= 5 /\ raw[5] = "+" THEN raw
  ELSE <<"s", "i", "p", ":", "+">> \o SubSeq(raw, 5, Len(raw))

\* C27: a target that starts with 'sip:' and has no digits gets a '+' after
\* 'sip:' like any other sip target (unless one is there); no number is
\* extracted from it, the store is not read, and it is rejected busy.
C27_DigitlessSipGetsPlus ==
  DigitlessSip =>
    /\ result.target = Some(SipPlus(event.ReferTransferTarget[1]))
    /\ result.phoneNumber = None /\ result.reads = 0
    /\ result.err = None
    /\ result.doc = <<Reject("busy")>>

C27_Witness ==
  /\ Transferred
  /\ event.ReferTransferTarget = Some(<<"s", "i", "p", ":", "a", "@", "d">>)
  /\ result.target = Some(<<"s", "i", "p", ":", "+", "a", "@", "d">>)
  /\ result.doc = <<Reject("busy")>>

\* an optional '+' and one digit or more
IsSipNumber(n) ==
  LET d == IF n # <<>> /\ n[1] = "+" THEN Tail(n) ELSE n
  IN d # <<>> /\ \A i \in 1..Len(d) : d[i] \in Digits

\* s holds 'sip:' at a, a number up to j and then '@'; before it only
\* spaces, or spaces and a '<' that a '>' followed by spaces only closes
SipAddressAt(s, a, j) ==
  /\ a + 4 <= j /\ j < Len(s)
  /\ SubSeq(s, a, a + 3) = <<"s", "i", "p", ":">>
  /\ s[j + 1] = "@"
  /\ IsSipNumber(SubSeq(s, a + 4, j))
  /\ \/ \A i \in 1..(a - 1) : s[i] = " "
     \/ /\ a > 1 /\ s[a - 1] = "<"
        /\ \A i \in 1..(a - 2) : s[i] = " "
        /\ \E b \in (j + 1)..Len(s) :
             s[b] = ">" /\ \A i \in (b + 1)..Len(s) : s[i] = " "

\* the numbers of the sip addresses an input holds
SipNumbersIn(input) ==
  IF input = None \/ input[1] = ObjectValue THEN {}
  ELSE LET s == input[1]
       IN {SubSeq(s, x[1] + 4, x[2]) :
             x \in {y \in (1..Len(s)) \X (1..Len(s)) : SipAddressAt(s, y[1], y[2])}}

Extracting == invoked = "extractPhoneFromSipUri"

\* C28: for an address sip:(+)?digits@domain[:port], bare, in angle
\* brackets or between spaces, extractPhoneFromSipUri returns the digits
\* with the '+' exactly when the address has it; for every other input
\* (undefined, empty, not a string, tel:, sip:@domain, other text) it
\* returns null; it never throws.
C28_ExtractsSipNumber ==
  Extracting =>
    /\ ~result.threw
    /\ \A n \in SipNumbersIn(event.sipUri) : result.returned = Some(n)
    /\ SipNumbersIn(event.sipUri) = {} => result.returned = None

C28_Witness ==
  /\ Extracting
  /\ event.sipUri = Some(<<" ", "<", "s", "i", "p", ":", "+", "6", "6", "@", "d", ":", "5", ">", " ">>)
  /\ result.returned = Some(<<"+", "6", "6">>)

----------------------------------------------------------------------------
(* Properties of setupSync (SpecSetup, SpecSetupOverlap) *)

\* the services of the configured friendly name, the maps of the configured
\* name in a service, and the runs that gave the page
SetupConfigured ==
  TruthyAtom(context.SYNC_SERVICE_NAME) /\ TruthyAtom(context.SYNC_MAP_PHONES_NAME)
Named ==
  {i \in 1..Len(sync.services) :
     Some(sync.services[i].friendlyName) = context.SYNC_SERVICE_NAME}
MapsNamed(i) ==
  {j \in 1..Len(sync.services[i].maps) :
     Some(sync.services[i].maps[j].uniqueName) = context.SYNC_MAP_PHONES_NAME}
Successes == SelectSeq(responses, LAMBDA resp : resp.statusCode = 200)

C30_OverlapSafe ==
  /\ Cardinality(Named) <= 1
  /\ \A k \in 1..Len(responses) :
       ~(responses[k].statusCode = 500 /\ responses[k].error = Some(409))

\* C31: after a successful run the service holds the ringGroup map, and in
\* it item "1" with a non-empty list in the {"group": [...]} shape, which a
\* ringGroup request for the default group would find.
C31_RingGroupMapPopulated ==
  Len(Successes) >= 1 =>
    \A i \in Named :
      \E j \in 1..Len(sync.services[i].maps) :
        LET map == sync.services[i].maps[j]
        IN /\ map.uniqueName = RingGroupMapName
           /\ K1 \in DOMAIN map.items
           /\ map.items[K1].status = 200
           /\ map.items[K1].shape = "group"
           /\ Len(map.items[K1].group) > 0

----------------------------------------------------------------------------
(* Further properties of a single invocation (SpecHandlers) *)

\* C32: an invocation of callTransfer or of ringGroup, on whatever path,
\* leaves both maps of the store as they were: no item is created, changed
\* or deleted.
C32_StoreOnlyRead ==
  [][(invoked' = "ringGroup" \/ invoked' = "callTransfer")
       => (store' = store /\ phones' = phones)]_vars

\* a ringGroup request for a group the store does not hold, and a transfer
\* whose read of the store failed
C32_Witness ==
  \/ /\ Ran /\ Configured
     /\ RingGroupIdOf(event) \notin DOMAIN store
     /\ VerbsOf(result.doc) = <<"Say", "Hangup">>
  \/ /\ Transferred /\ result.reads = 1
     /\ FetchPhone(phones, result.phoneNumber[1]).status = 500

----------------------------------------------------------------------------
(* Further properties of a single ringGroup invocation (Spec) *)

\* C33: a round that dials a number dials a destination of the strict
\* E.164 shape; a destination that fails the shape check is not dialed.
C33_NumberRoundE164 ==
  Ran =>
    \A i \in 1..Len(result.doc) :
      (result.doc[i].verb = "Dial" /\ result.doc[i].noun = "Number")
        => E164Shape(result.doc[i].target)

\* C34: a round that dials gives the dial the timeout of the destination
\* it dials, the refer webhook /callTransfer and answerOnBridge, and dials
\* the destination as SIP exactly when its type is 'sip', as a number for
\* every other type.
C34_RoundDialAttributes ==
  (Ran /\ DialsOf(result.doc) # <<>>) =>
    LET dial == DialsOf(result.doc)[1]
        dest == FetchedList[Position.val + 1]
    IN /\ dial.target = dest.destination
       /\ dial.attrs.timeout = Some(dest.timeout)
       /\ dial.attrs.referUrl = "/callTransfer"
       /\ dial.attrs.referMethod = "POST"
       /\ dial.attrs.answerOnBridge
       /\ dial.noun = "Sip" <=> dest.type = "sip"
       /\ dial.noun = "Number" <=> dest.type # "sip"

C34_Witness ==
  /\ Ran /\ DialsOf(result.doc) # <<>>
  /\ FetchedList[Position.val + 1].type = "SIP"
  /\ DialsOf(result.doc)[1].noun = "Number"
  /\ DialsOf(result.doc)[1].attrs.timeout = Some(13)

\* C37: the list is tested before position and outcome are looked at: a
\* read that yields no list or an empty list gives say + hangup at every
\* position and after every outcome, also at a position above 0 after an
\* answered call, and the position is not parsed.
C37_FaultBeforePosition ==
  (Ran /\ Configured /\ ConfigurationFault) =>
    /\ result.doc = <<Say("Ring group is not configured. Unable to connect your call.",
                          IF Truthy(event.ringGroupId) THEN event.ringGroupId[1] ELSE K1),
                      Hangup>>
    /\ result.state = None
    /\ ~result.threw

C37_Witness ==
  /\ Ran /\ Configured /\ ItemRead.status = 404
  /\ Gt(Position, 0)
  /\ event.DialCallStatus = Some("completed")
  /\ VerbsOf(result.doc) = <<"Say", "Hangup">>

\* the outcomes other than answered in the DialCallStatus type of ringGroup.ts
PlatformFailures == {"busy", "no-answer", "failed", "canceled"}

\* C38: after each of the platform's statuses busy, no-answer, failed and
\* canceled, an invocation at a position above 0 and below the length of the
\* list dials the destination at that position.
C38_PlatformFailureAdvances ==
  (/\ FetchedNonEmpty
   /\ Gt(Position, 0) /\ Position.val < Len(FetchedList)
   /\ IsSome(event.DialCallStatus) /\ event.DialCallStatus[1] \in PlatformFailures)
    => DialsIndex(Position.val)

\* the position of the request is an index of the list the invocation read
InRange ==
  /\ ~Position.nan
  /\ 0 <= Position.val /\ Position.val < Len(FetchedList)

\* C39: a response that dials holds one dial, of the element at the
\* position of the request in the list read by that invocation; a request
\* whose state is negative, not a number, or the length of the list or
\* more, dials nothing.
C39_DialsWithinList ==
  Ran =>
    /\ DialsOf(result.doc) # <<>> =>
         /\ InRange
         /\ Configured /\ FetchedList = ItemRead.group
         /\ Len(result.doc) = 1
         /\ result.doc[1].target = FetchedList[Position.val + 1].destination
    /\ ~InRange => DialsOf(result.doc) = <<>>

C39_Witness ==
  /\ Ran /\ Len(FetchedList) = MaxN
  /\ event.state = Some(<<"-", "1">>)
  /\ event.DialCallStatus = Some("busy")
  /\ DialsOf(result.doc) = <<>>
  /\ result.threw

----------------------------------------------------------------------------
(* Properties of fetchRingGroupConfig (SpecFetch) *)

Fetching == invoked = "fetchRingGroupConfig"

\* every parameter is given and the item under the key is an object whose
\* group is an array
GroupHeld ==
  /\ event.restClient /\ event.serviceSid /\ event.mapName
  /\ event.ringGroupId # <<>>
  /\ event.ringGroupId \in DOMAIN store
  /\ store[event.ringGroupId].status = 200
  /\ store[event.ringGroupId].shape = "group"

\* C35: fetchRingGroupConfig returns the stored list exactly when the item's
\* data is an object whose group is an array; with a parameter missing, a
\* 404, any other store error, a bare array or data without a group array it
\* returns null; it never throws.
C35_FetchRingGroupConfig ==
  Fetching =>
    /\ ~result.threw
    /\ GroupHeld => result.returned = Some(store[event.ringGroupId].group)
    /\ ~GroupHeld => result.returned = None

C35_Witness ==
  /\ Fetching
  /\ event.restClient /\ event.serviceSid /\ event.mapName
  /\ event.ringGroupId = K1
  /\ store[K1] = BareArrayItem(DestinationList(K1, MaxN))
  /\ result.returned = None

----------------------------------------------------------------------------
(* Further properties of a single callTransfer invocation (SpecTransfer) *)

\* C36: a transfer request is rejected only on the PSTN path and only for a
\* destination that fails the E.164 shape: the rejects for a missing record
\* in the sip and client cases are never the outcome.
C36_RejectOnlyAtE164Gate ==
  (Transferred /\ Rejected) =>
    /\ OnPstnPath
    /\ ~E164Shape(FirstNonEmpty(<<UriSeen, Extracted, Some(Normalized)>>))

C36_Witness ==
  /\ Transferred /\ Rejected
  /\ Looked /\ RecordSeen = None
  /\ Extracted = Some(PLong)

----------------------------------------------------------------------------
(* Further properties of the normalizer and the extractor (SpecStrings) *)

\* a '+' and one digit or more
PlusDigits(s) ==
  /\ Len(s) >= 2 /\ s[1] = "+"
  /\ \A i \in 2..Len(s) : s[i] \in Digits

\* the digits a target holds right after 'sip:', up to its '@' (<<>> when
\* the target is not 'sip:', digits, '@')
BareSipDigits(raw) ==
  IF Len(raw) >= 6 /\ SubSeq(raw, 1, 4) = <<"s", "i", "p", ":">>
     /\ \E j \in 5..(Len(raw) - 1) :
          raw[j + 1] = "@" /\ \A i \in 5..j : raw[i] \in Digits
  THEN SubSeq(raw, 5,
              CHOOSE j \in 5..(Len(raw) - 1) :
                raw[j + 1] = "@" /\ \A i \in 5..j : raw[i] \in Digits)
  ELSE <<>>

\* C40: every key a transfer request reads the store under is a '+' and one
\* digit or more; a sip target written without the '+' is read under its
\* number with the '+', never under the bare digits.
C40_KeysCarryPlus ==
  (Transferred /\ result.reads = 1) =>
    /\ IsSome(result.phoneNumber) /\ PlusDigits(result.phoneNumber[1])
    /\ BareSipDigits(event.ReferTransferTarget[1]) # <<>> =>
         result.phoneNumber = Some(<<"+">> \o BareSipDigits(event.ReferTransferTarget[1]))

C40_Witness ==
  /\ Transferred /\ result.reads = 1
  /\ event.ReferTransferTarget = Some(<<"s", "i", "p", ":", "6", "@", "d">>)
  /\ result.phoneNumber = Some(<<"+", "6">>)
  /\ P6 \in DOMAIN phones /\ SipDial

====
